---- MODULE Spec2Model ----
(***************************************************************************)
(* Model of SharedCodeGenerator (compiler/java/shared_code_generator.cc):  *)
(* Generate() emits the descriptor holder class of one .proto file, and    *)
(* GenerateDescriptors() embeds the serialized FileDescriptorProto as an   *)
(* array of escaped string literals followed by the call of                *)
(* internalBuildGeneratedFileFrom().                                       *)
(*                                                                         *)
(* Bytes and characters are integers 0..255.  Java names and paths are     *)
(* strings.  The text handed to io::Printer is kept as the sequence of     *)
(* Print() calls ("tokens"), each with the kind of its template, its       *)
(* substituted name and its substituted (escaped) data.                    *)
(***************************************************************************)
EXTENDS Integers, Sequences, FiniteSets, TLC

VARIABLES
    file_,                  \* the FileDescriptor being generated (input)
    options_,               \* the generator Options (input)
    caller,                 \* the lists the caller passes to Generate (input)
    pc,                     \* position of control in Generate/GenerateDescriptors
    file_list,              \* *file_list
    annotation_file_list,   \* *annotation_file_list
    opened,                 \* paths passed to context->Open(), in order
    released,               \* streams destroyed (unique_ptr reset / scope exit), in order
    printer,                \* "none", "alive" or "destroyed"
    out,                    \* the Print() calls made on the printer, in order
    flushed,                \* the text that has reached the generated file's stream
    annotations,            \* GeneratedCodeInfo collected through Annotate()
    info_written,           \* what was serialized to the .pb.meta stream
    file_data,              \* std::string file_data
    serialize_ok,           \* the (discarded) result of SerializeToString
    dependencies            \* std::vector<pair<filename, full_name>>

vars == <<file_, options_, caller, pc, file_list, annotation_file_list, opened,
          released, printer, out, flushed, annotations, info_written,
          file_data, serialize_ok, dependencies>>

-----------------------------------------------------------------------------
(* Program constants *)

kBytesPerLine == 40

kLinesPerPart == 400

kBytesPerPart == kBytesPerLine * kLinesPerPart

-----------------------------------------------------------------------------
(* Bounds of the model *)

\* payload lengths lie around 0..MaxParts full parts
MaxParts == 1

\* ... and around 0..MaxLines full lines
MaxLines == 2

\* ... within MaxSlack bytes of them
MaxSlack == 1

\* rotations of the byte pattern the payloads are filled with
MaxOffset == 1

\* longest dependency list
MaxDeps == 3

\* iterations of the chunk loop evaluated per block
LoopBlock == 1024

-----------------------------------------------------------------------------
(* Helpers *)

Min(a, b) == IF a < b THEN a ELSE b

Range(s) == {s[n] : n \in 1..Len(s)}

Last(s) == s[Len(s)]

\* std::string::substr(pos, count): at most count bytes from 0-based pos
Substr(s, pos, count) == SubSeq(s, pos + 1, Min(pos + count, Len(s)))

\* absl::StrCat on names
StrCat2(a, b) == a \o b

StrCat3(a, b, c) == a \o b \o c

\* one Print() call
Tok(kind, name, data) == [kind |-> kind, name |-> name, data |-> data]

-----------------------------------------------------------------------------
(* absl::CEscape, byte by byte *)

IsPrint(c) == c >= 32 /\ c < 127

OctalEscape(c) == <<92, 48 + (c \div 64), 48 + ((c % 64) \div 8), 48 + (c % 8)>>

CEscapeByte(c) ==
    CASE c = 10 -> <<92, 110>>      \* \n
      [] c = 13 -> <<92, 114>>      \* \r
      [] c = 9  -> <<92, 116>>      \* \t
      [] c = 34 -> <<92, 34>>       \* \"
      [] c = 39 -> <<92, 39>>       \* \'
      [] c = 92 -> <<92, 92>>       \* \\
      [] OTHER  -> IF IsPrint(c) THEN <<c>> ELSE OctalEscape(c)

\* every byte is escaped on its own; the halves are escaped in turn
RECURSIVE CEscape(_)
CEscape(s) ==
    IF s = <<>> THEN <<>>
    ELSE IF Len(s) = 1 THEN CEscapeByte(s[1])
    ELSE LET mid == Len(s) \div 2
         IN  CEscape(SubSeq(s, 1, mid)) \o CEscape(SubSeq(s, mid + 1, Len(s)))

-----------------------------------------------------------------------------
(* Collaborators whose code lives in other files of the compiler *)

\* HasDescriptorMethods(file, enforce_lite) of java/helpers.h
HasDescriptorMethods(f, enforce_lite) == ~enforce_lite

\* FileJavaPackage(file, true, options): the java package of a file
FileJavaPackage(f) == f.java_package

\* JavaPackageToDir(package): the directory of a package, "" for no package
JavaPackageToDir(package) == IF package = "" THEN "" ELSE StrCat2(package, "/")

\* ClassNameResolver::GetDescriptorClassName(file)
GetDescriptorClassName(f) == f.classname

\* FileDescriptorProto::SerializeToString of StripSourceRetentionOptions(file),
\* after Clear() when `cleared`: the bytes left in the output string, and
\* whether serialization succeeded.  A cleared message serializes to the
\* empty string; a failed serialization leaves the string empty.
SerializeToString(f, cleared) ==
    IF cleared THEN [ok |-> TRUE, data |-> <<>>]
    ELSE IF f.serializable THEN [ok |-> TRUE, data |-> f.serialized]
    ELSE [ok |-> FALSE, data |-> <<>>]

-----------------------------------------------------------------------------
(* Inputs *)

\* bytes the payloads are filled with: every byte value in turn, then NUL
\* before a digit, a backslash before 'n', a quote, 0xff before a digit
SampleBytes ==
    [x \in 1..256 |-> x - 1] \o <<0, 49, 92, 110, 34, 255, 55>>

\* the payload of n bytes that cycles through SampleBytes from offset off
Payload(off, n) == [x \in 1..n |-> SampleBytes[((x + off - 1) % Len(SampleBytes)) + 1]]

\* payload lengths around the line boundaries and around the part boundaries;
\* a file's FileDescriptorProto holds at least its name, so it is not empty
DataLens ==
    {n \in {l * kBytesPerLine + r : l \in 0..MaxLines, r \in (0 - MaxSlack)..MaxSlack}
           \cup {p * kBytesPerPart + r : p \in 1..MaxParts, r \in (0 - MaxSlack)..MaxSlack} :
        n >= 1}

Payloads == {Payload(off, n) : off \in 0..MaxOffset, n \in DataLens}

SmallPayloads == {Payload(0, n) : n \in 1..(MaxSlack + 1)}

\* dependencies: two different files that resolve to the same holder class
\* (no package), and one in a package
DepPool ==
    { [name |-> "a.proto",   java_package |-> "",  classname |-> "A"],
      [name |-> "x/a.proto", java_package |-> "",  classname |-> "A"],
      [name |-> "b.proto",   java_package |-> "p", classname |-> "B"] }

\* import lists: no file is imported twice
DepLists ==
    {s \in UNION {[1..n -> DepPool] : n \in 0..MaxDeps} :
        \A a, b \in 1..Len(s) : a # b => s[a] # s[b]}

File(package, deps, bytes, serializable) ==
    [name |-> "f.proto", java_package |-> package, classname |-> "F",
     dependency |-> deps, serialized |-> bytes, serializable |-> serializable]

Options(lite, annotate, oss, strip) ==
    [enforce_lite |-> lite, annotate_code |-> annotate,
     opensource_runtime |-> oss, strip_nonfunctional_codegen |-> strip]

Caller(fl, afl) == [file_list |-> fl, annotation_file_list |-> afl]

\* every option combination, on small payloads
OptionInputs ==
    { <<File(package, deps, bytes, serializable),
        Options(lite, annotate, oss, strip),
        Caller(<<>>, prior)>> :
        package \in {"", "p"}, deps \in DepLists, bytes \in SmallPayloads,
        serializable \in BOOLEAN, lite \in BOOLEAN, annotate \in BOOLEAN,
        oss \in BOOLEAN, strip \in BOOLEAN, prior \in {<<>>, <<"Prev.java.pb.meta">>} }

\* every payload, on the default options
PayloadInputs ==
    { <<File("", <<>>, bytes, TRUE), Options(FALSE, FALSE, TRUE, FALSE),
        Caller(<<>>, <<>>)>> : bytes \in Payloads }

Inputs == OptionInputs \cup PayloadInputs

-----------------------------------------------------------------------------
(* Names computed at the top of Generate *)

java_package == FileJavaPackage(file_)

package_dir == JavaPackageToDir(java_package)

classname == GetDescriptorClassName(file_)

filename == StrCat3(package_dir, classname, ".java")

info_relative_path == StrCat2(classname, ".java.pb.meta")

info_full_path == StrCat2(filename, ".pb.meta")

-----------------------------------------------------------------------------

Init ==
    /\ \E in \in Inputs :
          /\ file_ = in[1]
          /\ options_ = in[2]
          /\ caller = in[3]
    /\ pc = "start"
    /\ file_list = caller.file_list
    /\ annotation_file_list = caller.annotation_file_list
    /\ opened = <<>>
    /\ released = <<>>
    /\ printer = "none"
    /\ out = <<>>
    /\ flushed = <<>>
    /\ annotations = <<>>
    /\ info_written = <<>>
    /\ file_data = <<>>
    /\ serialize_ok = TRUE
    /\ dependencies = <<>>

\* Generate, lines 44-60: the gate, the file list, the stream and the printer
GenerateEnter ==
    /\ pc = "start"
    /\ IF HasDescriptorMethods(file_, options_.enforce_lite)
       THEN /\ file_list' = Append(file_list, filename)
            /\ opened' = Append(opened, filename)
            /\ printer' = "alive"
            /\ pc' = "preamble"
       ELSE /\ pc' = "done"
            /\ UNCHANGED <<file_list, opened, printer>>
    /\ UNCHANGED <<file_, options_, caller, annotation_file_list, released, out,
                   flushed, annotations, info_written, file_data, serialize_ok,
                   dependencies>>

\* the Print() calls of lines 61-98
PreambleText ==
    <<Tok("file_header", file_.name, <<>>)>>
    \o (IF options_.opensource_runtime
        THEN <<Tok("java_version", "", <<>>)>> ELSE <<>>)
    \o <<Tok("blank", "", <<>>)>>
    \o (IF java_package # ""
        THEN <<Tok("package", java_package, <<>>)>> ELSE <<>>)
    \o <<Tok("generated_annotation",
             IF options_.annotate_code THEN info_relative_path ELSE "", <<>>)>>
    \o <<Tok("class_open", classname, <<>>)>>
    \o <<Tok("static_open", "", <<>>)>>

\* Generate, lines 61-98: header, package, class declaration, "static {"
PrintPreamble ==
    /\ pc = "preamble"
    /\ out' = out \o PreambleText
    /\ annotations' =
          IF options_.annotate_code
          THEN Append(annotations, [span |-> "classname", source |-> file_.name])
          ELSE annotations
    /\ pc' = "gd_serialize"
    /\ UNCHANGED <<file_, options_, caller, file_list, annotation_file_list,
                   opened, released, printer, flushed, info_written, file_data,
                   serialize_ok, dependencies>>

\* GenerateDescriptors, lines 131-142: the payload and the array's opening
GD_Serialize ==
    /\ pc = "gd_serialize"
    /\ LET r == SerializeToString(file_, options_.strip_nonfunctional_codegen)
       IN  /\ file_data' = r.data
           /\ serialize_ok' = r.ok
    /\ out' = Append(out, Tok("array_open", "", <<>>))
    /\ pc' = "gd_chunks"
    /\ UNCHANGED <<file_, options_, caller, file_list, annotation_file_list,
                   opened, released, printer, flushed, annotations,
                   info_written, dependencies>>

\* a wrong modulus at line 153: every line starts a new array element
StartsNewPart_EveryLine(pos) == pos % kBytesPerLine = 0

\* line 153: the separator that starts a new array element
StartsNewPart(pos) == pos % kBytesPerPart = 0

\* lines 152-158: what is printed before the chunk at byte pos
Separator(pos) ==
    IF pos > 0
    THEN IF StartsNewPart(pos)
         THEN <<Tok("part_sep", "", <<>>)>>
         ELSE <<Tok("line_sep", "", <<>>)>>
    ELSE <<>>

\* a wrong count at line 160: each chunk takes one byte too many
Chunk_TooLong(data, pos) ==
    Tok("chunk", "", CEscape(Substr(data, pos, kBytesPerLine + 1)))

\* lines 159-160: the chunk at byte pos
Chunk(data, pos) == Tok("chunk", "", CEscape(Substr(data, pos, kBytesPerLine)))

\* line 151: the loop's condition
LoopCond(data, pos) == pos < Len(data)

\* a wrong increment at line 151: one byte is skipped between two chunks
NextPos_Skip(pos) == pos + kBytesPerLine + 1

\* line 151: the loop's increment
NextPos(pos) == pos + kBytesPerLine

\* lines 152-160 and the increment: one iteration from the loop state
\* st = [i, printed]
ChunkLoopBody(data, st) ==
    [i |-> NextPos(st.i),
     printed |-> st.printed \o Separator(st.i) \o <<Chunk(data, st.i)>>]

\* lines 151-161: at most `fuel` iterations of the chunk loop from the loop
\* state st, the first half of them and then the rest
RECURSIVE ChunkLoopSteps(_, _, _)
ChunkLoopSteps(data, st, fuel) ==
    IF fuel = 0 \/ ~LoopCond(data, st.i) THEN st
    ELSE IF fuel = 1 THEN ChunkLoopBody(data, st)
    ELSE LET half == fuel \div 2
             mid == ChunkLoopSteps(data, st, half)
         IN  ChunkLoopSteps(data, mid, fuel - half)

\* lines 151-161: the chunk loop from the loop state st to its end, run in
\* blocks of LoopBlock iterations
RECURSIVE ChunkLoopFrom(_, _)
ChunkLoopFrom(data, st) ==
    IF LoopCond(data, st.i)
    THEN ChunkLoopFrom(data, ChunkLoopSteps(data, st, LoopBlock))
    ELSE st

\* lines 151-161: what the chunk loop prints
ChunkLoop(data) == ChunkLoopFrom(data, [i |-> 0, printed |-> <<>>]).printed

\* GenerateDescriptors, lines 144-164: the chunk loop and the array's closing
GD_Chunks ==
    /\ pc = "gd_chunks"
    /\ out' = out \o ChunkLoop(file_data) \o <<Tok("array_close", "", <<>>)>>
    /\ pc' = "gd_collect"
    /\ UNCHANGED <<file_, options_, caller, file_list, annotation_file_list,
                   opened, released, printer, flushed, annotations,
                   info_written, file_data, serialize_ok, dependencies>>

\* lines 171-179: the holder class of a dependency, qualified by its package
FullName(dep) ==
    LET package == FileJavaPackage(dep)
        cls == GetDescriptorClassName(dep)
    IN  IF package = "" THEN cls ELSE StrCat3(package, ".", cls)

\* line 180 with a dependency dropped when its holder class is already listed
PushDependency_Dedup(deps, dep) ==
    IF \E x \in 1..Len(deps) : deps[x][2] = FullName(dep)
    THEN deps
    ELSE Append(deps, <<dep.name, FullName(dep)>>)

\* line 180: the list after one more dependency
PushDependency(deps, dep) == Append(deps, <<dep.name, FullName(dep)>>)

\* lines 169-181: the first dependency loop, from index n (0-based)
RECURSIVE CollectFrom(_, _, _)
CollectFrom(f, n, deps) ==
    IF n < Len(f.dependency)
    THEN CollectFrom(f, n + 1, PushDependency(deps, f.dependency[n + 1]))
    ELSE deps

\* GenerateDescriptors, lines 168-181
GD_CollectDependencies ==
    /\ pc = "gd_collect"
    /\ dependencies' = CollectFrom(file_, 0, <<>>)
    /\ pc' = "gd_build"
    /\ UNCHANGED <<file_, options_, caller, file_list, annotation_file_list,
                   opened, released, printer, out, flushed, annotations,
                   info_written, file_data, serialize_ok>>

\* lines 193-195: the reference to the dependency at index n (0-based)
DependencyRef(deps, n) == Tok("dep", deps[n + 1][2], <<>>)

\* lines 192-196: the second dependency loop, from index n (0-based)
RECURSIVE EmitFrom(_, _)
EmitFrom(deps, n) ==
    IF n < Len(deps)
    THEN <<DependencyRef(deps, n)>> \o EmitFrom(deps, n + 1)
    ELSE <<>>

\* lines 185-199 with the test of line 188 dropped
BuildText_AlwaysDeps(deps) ==
    <<Tok("build_open", "", <<>>), Tok("deps_open", "", <<>>)>>
    \o EmitFrom(deps, 0)
    \o <<Tok("build_close", "", <<>>)>>

\* lines 185-199: the Print() calls of the reconstruction call
BuildText(deps) ==
    <<Tok("build_open", "", <<>>)>>
    \o (IF options_.opensource_runtime
        THEN <<Tok("deps_open", "", <<>>)>> \o EmitFrom(deps, 0)
        ELSE <<>>)
    \o <<Tok("build_close", "", <<>>)>>

\* GenerateDescriptors, lines 185-199
GD_Build ==
    /\ pc = "gd_build"
    /\ out' = out \o BuildText(dependencies)
    /\ pc' = "tail"
    /\ UNCHANGED <<file_, options_, caller, file_list, annotation_file_list,
                   opened, released, printer, flushed, annotations,
                   info_written, file_data, serialize_ok, dependencies>>

\* the Print() calls of lines 100-106
TailText ==
    <<Tok("version_validator", classname, <<>>), Tok("class_close", "", <<>>)>>

\* Generate, lines 100-106: the version validator, "}" and "}"
PrintTail ==
    /\ pc = "tail"
    /\ out' = out \o TailText
    /\ pc' = "annotate"
    /\ UNCHANGED <<file_, options_, caller, file_list, annotation_file_list,
                   opened, released, printer, flushed, annotations,
                   info_written, file_data, serialize_ok, dependencies>>

\* lines 108-113 with the test of line 108 dropped
WriteAnnotations_Always ==
    /\ pc = "annotate"
    /\ opened' = Append(opened, info_full_path)
    /\ info_written' = annotations
    /\ annotation_file_list' = Append(annotation_file_list, info_full_path)
    /\ released' = Append(released, info_full_path)
    /\ pc' = "reset_printer"
    /\ UNCHANGED <<file_, options_, caller, file_list, printer, out, flushed,
                   annotations, file_data, serialize_ok, dependencies>>

\* Generate, lines 108-113: the sidecar, opened, written and released at the
\* end of the block
WriteAnnotations ==
    /\ pc = "annotate"
    /\ IF options_.annotate_code
       THEN /\ opened' = Append(opened, info_full_path)
            /\ info_written' = annotations
            /\ annotation_file_list' = Append(annotation_file_list, info_full_path)
            /\ released' = Append(released, info_full_path)
       ELSE UNCHANGED <<opened, info_written, annotation_file_list, released>>
    /\ pc' = "reset_printer"
    /\ UNCHANGED <<file_, options_, caller, file_list, printer, out, flushed,
                   annotations, file_data, serialize_ok, dependencies>>

\* line 115 left out: the printer outlives its stream
ResetPrinter_Skipped ==
    /\ pc = "reset_printer"
    /\ pc' = "reset_output"
    /\ UNCHANGED <<file_, options_, caller, file_list, annotation_file_list,
                   opened, released, printer, out, flushed, annotations,
                   info_written, file_data, serialize_ok, dependencies>>

\* Generate, line 115: the printer is destroyed, its text reaches the stream
ResetPrinter ==
    /\ pc = "reset_printer"
    /\ printer' = "destroyed"
    /\ flushed' = out
    /\ pc' = "reset_output"
    /\ UNCHANGED <<file_, options_, caller, file_list, annotation_file_list,
                   opened, released, out, annotations, info_written, file_data,
                   serialize_ok, dependencies>>

\* Generate, line 116: the generated file's stream is destroyed
ResetOutput ==
    /\ pc = "reset_output"
    /\ released' = Append(released, filename)
    /\ pc' = "done"
    /\ UNCHANGED <<file_, options_, caller, file_list, annotation_file_list,
                   opened, printer, out, flushed, annotations, info_written,
                   file_data, serialize_ok, dependencies>>

Next ==
    \/ GenerateEnter
    \/ PrintPreamble
    \/ GD_Serialize
    \/ GD_Chunks
    \/ GD_CollectDependencies
    \/ GD_Build
    \/ PrintTail
    \/ WriteAnnotations
    \/ ResetPrinter
    \/ ResetOutput

Spec == Init /\ [][Next]_vars

-----------------------------------------------------------------------------
(* Reading the emitted text back *)

IsOctal(c) == c >= 48 /\ c <= 55

\* the byte a two-character escape stands for, -1 for none
SimpleUnescape(c) ==
    CASE c = 110 -> 10
      [] c = 114 -> 13
      [] c = 116 -> 9
      [] c = 34  -> 34
      [] c = 39  -> 39
      [] c = 92  -> 92
      [] OTHER   -> -1

\* the number of octal digits, at most three, of s from position p
OctalRun(s, p) ==
    IF p + 1 <= Len(s) /\ IsOctal(s[p + 1])
    THEN IF p + 2 <= Len(s) /\ IsOctal(s[p + 2]) THEN 3 ELSE 2
    ELSE 1

\* the value of the d octal digits of s from position p
OctalValue(s, p, d) ==
    CASE d = 1 -> s[p] - 48
      [] d = 2 -> (s[p] - 48) * 8 + (s[p + 1] - 48)
      [] OTHER -> (s[p] - 48) * 64 + (s[p + 1] - 48) * 8 + (s[p + 2] - 48)

\* one character or escape of the literal text s read at st.p: a backslash
\* starts an octal escape of up to three digits or a two-character escape;
\* -1 marks text that is no valid literal
UnescapeOne(s, st) ==
    LET p == st.p
    IN  CASE s[p] # 92 -> [p |-> p + 1, bytes |-> Append(st.bytes, s[p])]
          [] s[p] = 92 /\ p = Len(s) -> [p |-> p + 1, bytes |-> Append(st.bytes, -1)]
          [] s[p] = 92 /\ p < Len(s) /\ IsOctal(s[p + 1]) ->
                LET d == OctalRun(s, p + 1)
                IN  [p |-> p + 1 + d,
                     bytes |-> Append(st.bytes, OctalValue(s, p + 1, d))]
          [] OTHER -> [p |-> p + 2,
                       bytes |-> Append(st.bytes, SimpleUnescape(s[p + 1]))]

\* at most `fuel` characters or escapes of s read from st, the first half of
\* them and then the rest
RECURSIVE UnescapeSteps(_, _, _)
UnescapeSteps(s, st, fuel) ==
    IF fuel = 0 \/ st.p > Len(s) THEN st
    ELSE IF fuel = 1 THEN UnescapeOne(s, st)
    ELSE LET half == fuel \div 2
             mid == UnescapeSteps(s, st, half)
         IN  UnescapeSteps(s, mid, fuel - half)

\* the bytes the literal text s stands for
CUnescape(s) == UnescapeSteps(s, [p |-> 1, bytes |-> <<>>], Len(s)).bytes

\* the tokens of the descriptorData array, in emission order
ArrayToks == SelectSeq(out, LAMBDA t : t.kind \in {"chunk", "part_sep", "line_sep"})

\* the positions in a of the chunks, in emission order
ChunkPos(a) == SelectSeq([x \in 1..Len(a) |-> x], LAMBDA x : a[x].kind = "chunk")

\* the bytes each chunk of a stands for (cp: the chunks' positions)
Unescaped(a, cp) == [k \in 1..Len(cp) |-> CUnescape(a[cp[k]].data)]

\* concatenation of u[lo..hi]
RECURSIVE Flatten(_, _, _)
Flatten(u, lo, hi) ==
    IF lo > hi THEN <<>>
    ELSE IF lo = hi THEN u[lo]
    ELSE LET mid == (lo + hi) \div 2
         IN  Flatten(u, lo, mid) \o Flatten(u, mid + 1, hi)

\* the chunks that start an array element: the first one, and each one that
\* directly follows a part separator
PartStarts(a, cp) ==
    {k \in 1..Len(cp) : k = 1 \/ a[cp[k] - 1].kind = "part_sep"}

\* the first chunk of the array element chunk k is in (ps: the part starts)
PartStart(ps, k) == CHOOSE s \in ps : s <= k /\ \A t \in ps : t <= k => t <= s

\* the number of chunks of the array element that starts at chunk s, of n chunks
PartSize(ps, n, s) ==
    LET later == {t \in ps : t > s}
    IN  IF later = {} THEN n + 1 - s
        ELSE (CHOOSE t \in later : \A v \in later : t <= v) - s

CeilDiv(a, b) == (a + b - 1) \div b

\* the chunk loop has run and the array is closed
LoopDone ==
    pc \in {"gd_collect", "gd_build", "tail", "annotate", "reset_printer",
            "reset_output"}
    \/ (pc = "done" /\ printer # "none")

-----------------------------------------------------------------------------
(* C1: the chunks the loop emitted are, in emission order, the consecutive *)
(* 40-byte slices of the payload: chunk k (from 0) unescapes to bytes      *)
(* [40k, min(40(k+1), |d|)) for every k, and the concatenation of the      *)
(* unescaped chunks is the payload.                                        *)
C1_ChunksAreSlices ==
    LET a == ArrayToks
        cp == ChunkPos(a)
        m == Len(cp)
        n == Len(file_data)
    IN  LoopDone =>
              LET u == Unescaped(a, cp)
              IN  /\ \A k \in 1..m :
                        u[k] = SubSeq(file_data, (k - 1) * 40 + 1, Min(k * 40, n))
                  /\ Flatten(u, 1, m) = file_data

C1_Witness ==
    LET a == ArrayToks
        cp == ChunkPos(a)
        u == Unescaped(a, cp)
    IN  /\ LoopDone
        /\ Len(file_data) = kBytesPerPart + 1
        /\ Len(cp) = kLinesPerPart + 1
        /\ u[1] # a[cp[1]].data
        /\ Flatten(u, 1, Len(cp)) = file_data

-----------------------------------------------------------------------------
(* C3: every array element holds at most 400 chunks, and every element but *)
(* the last exactly 400.  Once the loop has ended, every chunk unescapes   *)
(* to at most 40 bytes, every chunk but the last to exactly 40, and no     *)
(* element carries more than 16000 payload bytes.                          *)
C3_Bounds ==
    LET a == ArrayToks
        cp == ChunkPos(a)
        n == Len(cp)
        ps == PartStarts(a, cp)
    IN  /\ \A s \in ps :
              LET size == PartSize(ps, n, s)
              IN  /\ size <= 400
                  /\ s + size <= n => size = 400
        /\ LoopDone =>
              LET u == Unescaped(a, cp)
              IN  /\ \A k \in 1..n :
                        LET len == Len(u[k])
                        IN  len <= 40 /\ (k < n => len = 40)
                  /\ \A s \in ps :
                        Len(Flatten(u, s, s + PartSize(ps, n, s) - 1)) <= 16000

C3_Witness ==
    LET a == ArrayToks
        cp == ChunkPos(a)
        u == Unescaped(a, cp)
        n == Len(cp)
        ps == PartStarts(a, cp)
    IN  /\ LoopDone
        /\ Cardinality(ps) = 2
        /\ PartSize(ps, n, 1) = kLinesPerPart
        /\ PartSize(ps, n, kLinesPerPart + 1) = 1
        /\ Len(u[n]) = 1
        /\ Len(Flatten(u, 1, kLinesPerPart)) = kBytesPerPart

-----------------------------------------------------------------------------
(* C4: the array has ceil(chunks / 400) elements; the first token is a     *)
(* chunk and so is the last; between two consecutive chunks there is       *)
(* exactly one separator, the part separator exactly when the element      *)
(* being filled holds 400 chunks - equivalently when the next chunk starts *)
(* at a positive multiple of 16000 bytes - and the line separator          *)
(* otherwise.                                                              *)
C4_Separators ==
    LET a == ArrayToks
        cp == ChunkPos(a)
        n == Len(cp)
        ps == PartStarts(a, cp)
    IN  /\ Cardinality(ps) = CeilDiv(n, 400)
        /\ a # <<>> => a[1].kind = "chunk" /\ Last(a).kind = "chunk"
        /\ \A k \in 1..(n - 1) :
              LET sep == a[cp[k] + 1].kind
              IN  /\ cp[k + 1] = cp[k] + 2
                  /\ sep = "part_sep" <=> k + 1 - PartStart(ps, k) = 400
                  /\ sep = "part_sep" <=> (k * 40) % 16000 = 0
                  /\ sep = "line_sep" <=> k + 1 - PartStart(ps, k) # 400

C4_Witness ==
    LET a == ArrayToks
        cp == ChunkPos(a)
        ps == PartStarts(a, cp)
    IN  /\ LoopDone
        /\ Len(cp) = kLinesPerPart + 1
        /\ Cardinality(ps) = 2
        /\ a[2 * kLinesPerPart].kind = "part_sep"
        /\ a[2].kind = "line_sep"
        /\ Len(a) = 2 * kLinesPerPart + 1

-----------------------------------------------------------------------------
(* C2 (as claimed): once the array is written for a serialized payload of  *)
(* length 0, it holds exactly one element made of exactly one chunk, and   *)
(* that chunk is empty.                                                    *)
C2_EmptyPayloadOneChunk ==
    (LoopDone /\ serialize_ok /\ Len(file_data) = 0) =>
        LET a == ArrayToks
            cp == ChunkPos(a)
        IN  /\ Len(cp) = 1
            /\ Cardinality(PartStarts(a, cp)) = 1
            /\ a[cp[1]].data = <<>>

-----------------------------------------------------------------------------
(* The reconstruction call *)

\* the tokens of the call of internalBuildGeneratedFileFrom, in emission order
CallToks ==
    SelectSeq(out, LAMBDA t : t.kind \in {"build_open", "deps_open", "dep", "build_close"})

\* the dependency references of the call
DepRefs == SelectSeq(out, LAMBDA t : t.kind = "dep")

\* the holder class a dependency resolves to
ResolvedName(dep) ==
    IF dep.java_package = "" THEN dep.classname
    ELSE dep.java_package \o "." \o dep.classname

\* the call has been printed
CallDone ==
    pc \in {"tail", "annotate", "reset_printer", "reset_output"}
    \/ (pc = "done" /\ printer # "none")

-----------------------------------------------------------------------------
(* C5: when dependency references are emitted (the open-source runtime),   *)
(* the call holds one reference per dependency of the file, right after    *)
(* the dependency array's opening, and reference n names the holder class  *)
(* dependency n resolves to, package-qualified when it has a package.      *)
C5_DependencyOrder ==
    (CallDone /\ options_.opensource_runtime) =>
        LET c == CallToks
            n == Len(file_.dependency)
        IN  /\ Len(DepRefs) = n
            /\ Len(c) = n + 3
            /\ c[1].kind = "build_open"
            /\ c[2].kind = "deps_open"
            /\ c[n + 3].kind = "build_close"
            /\ \A x \in 1..n :
                  /\ c[x + 2].kind = "dep"
                  /\ c[x + 2].name = ResolvedName(file_.dependency[x])

\* three dependencies, two of them resolving to the same holder class, the
\* packaged one between them
C5_Witness ==
    /\ pc = "done"
    /\ options_.opensource_runtime
    /\ Len(file_.dependency) = 3
    /\ file_.dependency[2].java_package = "p"
    /\ [x \in 1..Len(DepRefs) |-> DepRefs[x].name] = <<"A", "p.B", "A">>

-----------------------------------------------------------------------------
(* C6: in the restricted runtime (not the open-source runtime) the call    *)
(* holds no dependency reference and no dependency array, whatever the     *)
(* number of dependencies; under enforce_lite there is no call at all.     *)
C6_RestrictedNoDependencies ==
    /\ ~options_.opensource_runtime =>
          \A x \in 1..Len(out) : out[x].kind \notin {"dep", "deps_open"}
    /\ options_.enforce_lite => out = <<>>

C6_Witness ==
    /\ pc = "done"
    /\ ~options_.opensource_runtime
    /\ ~options_.enforce_lite
    /\ Len(dependencies) = 3
    /\ Len(CallToks) = 2

-----------------------------------------------------------------------------
(* C7 (as claimed): the call is well formed in every configuration: the    *)
(* two-argument form with the open-source runtime, the one-argument form   *)
(* without, and in both its brackets match.                                *)

\* the brackets of each template, outside string literals, in order
Brackets(kind) ==
    CASE kind = "build_open"  -> <<"(">>
      [] kind = "deps_open"   -> <<"[", "]", "{">>
      [] kind = "dep"         -> <<"(", ")">>
      [] kind = "build_close" -> <<"}", ")">>
      [] OTHER                -> <<>>

RECURSIVE BracketsOf(_)
BracketsOf(toks) ==
    IF toks = <<>> THEN <<>> ELSE Brackets(Head(toks).kind) \o BracketsOf(Tail(toks))

Opener(b) == CASE b = ")" -> "(" [] b = "]" -> "[" [] b = "}" -> "{" [] OTHER -> ""

\* whether the brackets bs match, read with the stack of open brackets
RECURSIVE Balanced(_, _)
Balanced(bs, stack) ==
    IF bs = <<>> THEN stack = <<>>
    ELSE IF Head(bs) \in {"(", "[", "{"} THEN Balanced(Tail(bs), <<Head(bs)>> \o stack)
    ELSE /\ stack # <<>>
         /\ Head(stack) = Opener(Head(bs))
         /\ Balanced(Tail(bs), Tail(stack))

C7_CallWellFormed ==
    CallDone =>
        LET c == CallToks
        IN  /\ c[1].kind = "build_open"
            /\ Last(c).kind = "build_close"
            /\ options_.opensource_runtime => c[2].kind = "deps_open"
            /\ ~options_.opensource_runtime => Len(c) = 2
            /\ Balanced(BracketsOf(c), <<>>)

-----------------------------------------------------------------------------
(* C8 (as claimed): after a failed serialization nothing more is emitted:  *)
(* no array, no call, and the run does not end with the file's text        *)
(* delivered to its stream.                                                *)
C8_SerializeFailureAborts ==
    ~serialize_ok =>
        /\ \A x \in 1..Len(out) :
              out[x].kind \notin {"array_open", "chunk", "array_close",
                                  "build_open", "build_close"}
        /\ ~(pc = "done" /\ flushed # <<>>)

-----------------------------------------------------------------------------
(* C9: the sidecar is the second stream opened, at the generated file's    *)
(* path followed by ".pb.meta"; it is opened, written with the collected   *)
(* annotations and appended to annotation_file_list exactly when           *)
(* annotate_code is set, and only once the text up to the class's closing  *)
(* braces has been printed; without annotate_code no second stream is      *)
(* opened and annotation_file_list stays as the caller passed it.          *)
C9_Sidecar ==
    LET emits == HasDescriptorMethods(file_, options_.enforce_lite)
        afterBlock == pc \in {"reset_printer", "reset_output", "done"}
        sidecar == Len(opened) >= 2
        listed == annotation_file_list # caller.annotation_file_list
    IN  /\ Len(opened) <= 2
        /\ (emits /\ afterBlock) => (sidecar <=> options_.annotate_code)
        /\ (emits /\ afterBlock) => (listed <=> options_.annotate_code)
        /\ (sidecar \/ listed) =>
              /\ options_.annotate_code
              /\ opened[2] = opened[1] \o ".pb.meta"
              /\ annotation_file_list = Append(caller.annotation_file_list, opened[2])
              /\ opened[2] \in Range(released)
              /\ info_written = <<[span |-> "classname", source |-> file_.name]>>
              /\ out # <<>> /\ Last(out).kind = "class_close"
        /\ ~options_.annotate_code =>
              /\ annotation_file_list = caller.annotation_file_list
              /\ Len(opened) <= 1
              /\ info_written = <<>>

C9_Witness ==
    /\ pc = "done"
    /\ options_.annotate_code
    /\ caller.annotation_file_list # <<>>
    /\ file_.java_package = "p"
    /\ opened = <<"p/F.java", "p/F.java.pb.meta">>
    /\ annotation_file_list = <<"Prev.java.pb.meta", "p/F.java.pb.meta">>

-----------------------------------------------------------------------------
(* C10: when Generate has returned, every stream it opened has been        *)
(* released, each once; and whenever the generated file's stream has been  *)
(* released, the printer has been destroyed before and all the text, up to *)
(* the class's closing braces, has reached the stream.                     *)
C10_StreamsReleased ==
    /\ pc = "done" =>
          /\ Len(released) = Len(opened)
          /\ Range(released) = Range(opened)
          /\ HasDescriptorMethods(file_, options_.enforce_lite) => Len(opened) >= 1
    /\ (opened # <<>> /\ opened[1] \in Range(released)) =>
          /\ printer = "destroyed"
          /\ flushed = out
          /\ out # <<>> /\ Last(out).kind = "class_close"

C10_Witness ==
    /\ pc = "done"
    /\ released = <<"F.java.pb.meta", "F.java">>
    /\ opened = <<"F.java", "F.java.pb.meta">>
    /\ printer = "destroyed"

====
